---- MODULE Spec2Model ----
(***************************************************************************)
(* A model of src/src/spinner.ts: the braille spinner.                     *)
(*                                                                         *)
(* spin() starts the async animation loop spinInternal, and returns        *)
(* {cancel, done}.  The loop, every call of cancel() and every awaiter of  *)
(* done are cooperative tasks of one JavaScript event loop: each runs      *)
(* without interruption from one await to the next.  An action of this     *)
(* module is one such run: the completion of the awaited operation (a      *)
(* write to Deno.stderr, a timer, a promise) together with the code up to  *)
(* the task's next await.                                                  *)
(*                                                                         *)
(* Deno.stderr.write is asynchronous: a write is issued, is in flight, and *)
(* then either completes (its bytes are on the sink) or is rejected by the *)
(* sink (no bytes).  The program awaits nothing between writes of          *)
(* different tasks, so several writes can be in flight; the Deno.Writer    *)
(* contract promises no order between them, and the model lets them        *)
(* complete in any order.                                                  *)
(***************************************************************************)
EXTENDS Integers, Sequences, FiniteSets, TLC

\* How many times the controller calls cancel() on one spinner.
MaxCancels == 2
\* How many awaiters, other than cancel() itself, await the done promise.
MaxAwaiters == 2
\* How many resolve/reject calls a Deferred taken alone receives.
MaxCalls == 3
\* The longest time the timed controller waits before it calls cancel().
MaxWait == 25

VARIABLES
    cancelled,   \* spin: let cancelled (line 84)
    done,        \* spin: const done = new Deferred() (line 86)
    loopPc,      \* where spinInternal is: the await it is suspended at, or how it ended
    frameIdx,    \* spinInternal: index in ALL_BRAILLE_FRAMES of the for loop's frame
    internal,    \* spin: internalPromise, the promise of the spinInternal() call (line 118)
    reacted,     \* whether the reaction of internalPromise.then(...) (line 119) has run
    cancelPc,    \* per cancel() call: not called, the await it is suspended at, or how it ended
    calls,       \* the calls of done.resolve and done.reject made so far, in order
    cancelSaw,   \* per cancel() call: the outcome its await done.promise resumed with
    cancelRet,   \* per cancel() call: the promise the call returned
    awaitPc,     \* per awaiter of done: not attached, waiting, or resumed
    awaitSaw,    \* per awaiter of done: the outcome it was resumed with
    inflight,    \* Deno.stderr: the writes issued and not yet completed
    sink,        \* Deno.stderr: the writes the sink received, in the order received
    ms,          \* spin: the parameter ms, the interval between frames (line 83)
    wake,        \* sleep: the time at which the timer of the pending sleep(ms) is due
    now,         \* the time; it advances only in the timed specification
    waitFor,     \* the timed controller: how long it waits before it calls cancel()
    mainPc,      \* where main is: the await it is suspended at, or how it ended
    built        \* the frames array while ALL_BRAILLE_CHARS.map(encode) builds it

deferredVars == <<done, calls>>
loopVars == <<loopPc, frameIdx, internal, reacted, wake>>
cancelVars == <<cancelPc, cancelSaw, cancelRet>>
awaitVars == <<awaitPc, awaitSaw>>
sinkVars == <<inflight, sink>>

timeVars == <<ms, now, waitFor>>
extVars == <<timeVars, mainPc, built>>

vars == <<cancelled, deferredVars, loopVars, cancelVars, awaitVars, sinkVars, extVars>>

----------------------------------------------------------------------------
(* Strings are sequences of code points; TextEncoder.encode gives UTF-8.   *)

ESC == 27

\* "\x1b[1D"
ANSI_CURSOR_LEFT == <<ESC, 91, 49, 68>>

\* "\x1b[?25l"
ANSI_CURSOR_HIDE == <<ESC, 91, 63, 50, 53, 108>>

\* "\x1b[?25h"
ANSI_CURSOR_SHOW == <<ESC, 91, 63, 50, 53, 104>>

\* " "
BLANK == <<32>>

BRAILLE_FIRST == 10240  \* 0x2800
BRAILLE_LAST == 10495   \* 0x28FF

\* The UTF-8 bytes of one code point (of the Basic Multilingual Plane).
Utf8(cp) ==
    IF cp < 128 THEN <<cp>>
    ELSE IF cp < 2048 THEN <<192 + (cp \div 64), 128 + (cp % 64)>>
    ELSE <<224 + (cp \div 4096), 128 + ((cp \div 64) % 64), 128 + (cp % 64)>>

RECURSIVE TextEncode(_)
\* new TextEncoder().encode(str)
TextEncode(str) ==
    IF str = <<>> THEN <<>> ELSE Utf8(Head(str)) \o TextEncode(Tail(str))

\* ALL_BRAILLE_CHARS[i], 0-based as in the source: a string of one code point.
ALL_BRAILLE_CHARS == [i \in 0 .. (BRAILLE_LAST - BRAILLE_FIRST) |-> <<BRAILLE_FIRST + i>>]

\* An encode that leaves out the cursor-left sequence (the fault C15 excludes).
encodeGlyphOnly(char) == TextEncode(char)

\* encode(char): [ANSI_CURSOR_LEFT, char].join("") encoded.
encode(char) == TextEncode(ANSI_CURSOR_LEFT \o char)

ALL_BRAILLE_FRAMES == [i \in DOMAIN ALL_BRAILLE_CHARS |-> encode(ALL_BRAILLE_CHARS[i])]

\* The buffer main writes first: "Working... "
WorkingBytes == TextEncode(<<87, 111, 114, 107, 105, 110, 103, 46, 46, 46, 32>>)

\* The buffer main writes in its finally block.
ShowBytes == TextEncode(ANSI_CURSOR_SHOW)

\* The buffer spinInternal writes first.
HideBytes == TextEncode(ANSI_CURSOR_HIDE)

\* The buffer cancel() writes: cursor-left, blank, cursor-left, show-cursor.
CleanupBytes == TextEncode(ANSI_CURSOR_LEFT \o BLANK \o ANSI_CURSOR_LEFT \o ANSI_CURSOR_SHOW)

----------------------------------------------------------------------------
(* Values a promise settles with.                                          *)

Undefined == "undefined"
TestError == "Error(test)"       \* new Error("test")
WriteError == "WriteError"       \* the cause the sink rejects a write with

Values == {Undefined, TestError, WriteError}

(* A native Promise: settled at most once; resolve and reject of a settled *)
(* promise do nothing.                                                     *)
PendingPromise == [state |-> "pending", value |-> Undefined]

\* A resolve that settles again a promise already settled (the fault C5 excludes).
PromiseResolveOverwrites(p, v) == [state |-> "fulfilled", value |-> v]

\* The resolve function of new Promise((resolve, reject) => ...), on a non-thenable.
PromiseResolve(p, v) ==
    IF p.state = "pending" THEN [state |-> "fulfilled", value |-> v] ELSE p

\* The reject function of new Promise((resolve, reject) => ...).
PromiseReject(p, r) ==
    IF p.state = "pending" THEN [state |-> "rejected", value |-> r] ELSE p

Settled(p) == p.state # "pending"

(* class Deferred *)
NewDeferred == [promise |-> PendingPromise, isResolved |-> FALSE, isRejected |-> FALSE]

\* A _resolve that sets its flag and leaves out resolve(value) (the fault C19 excludes).
DeferredResolveFlagOnly(d, v) == [d EXCEPT !.isResolved = TRUE]

\* this._resolve
DeferredResolve(d, v) ==
    [d EXCEPT !.isResolved = TRUE, !.promise = PromiseResolve(d.promise, v)]

\* this._reject
DeferredReject(d, r) ==
    [d EXCEPT !.isRejected = TRUE, !.promise = PromiseReject(d.promise, r)]

\* get isDone
isDone(d) == d.isResolved \/ d.isRejected

\* A call done.resolve(v).
CallResolve(v) ==
    /\ done' = DeferredResolve(done, v)
    /\ calls' = Append(calls, [op |-> "resolve", arg |-> v])

\* A call done.reject(r).
CallReject(r) ==
    /\ done' = DeferredReject(done, r)
    /\ calls' = Append(calls, [op |-> "reject", arg |-> r])

----------------------------------------------------------------------------
(* The tasks that write to the sink.                                       *)

LoopTask == <<"spinInternal", 0>>
CancelTask(i) == <<"cancel", i>>
MainTask == <<"main", 0>>

Write(task, bytes) == [by |-> task, bytes |-> bytes]

InFlightOf(task) == {w \in inflight : w.by = task}

\* spin(ms = 500): the default interval, which is also what main passes.
DefaultMs == 500

\* The state when spin() has returned: spinInternal has run to its first await.
\* The frames array is built before (see SpecFrames); here it is the constant
\* ALL_BRAILLE_FRAMES.  Time stands still: a timer may fire at any moment.
Init ==
    /\ cancelled = FALSE
    /\ done = NewDeferred
    /\ calls = <<>>
    /\ loopPc = "hide_write"
    /\ frameIdx = 0
    /\ internal = PendingPromise
    /\ reacted = FALSE
    /\ cancelPc = [i \in 1 .. MaxCancels |-> "idle"]
    /\ cancelSaw = [i \in 1 .. MaxCancels |-> PendingPromise]
    /\ cancelRet = [i \in 1 .. MaxCancels |-> PendingPromise]
    /\ awaitPc = [j \in 1 .. MaxAwaiters |-> "idle"]
    /\ awaitSaw = [j \in 1 .. MaxAwaiters |-> [late |-> FALSE, outcome |-> PendingPromise]]
    /\ inflight = {Write(LoopTask, HideBytes)}
    /\ sink = <<>>
    /\ ms = DefaultMs
    /\ wake = 0
    /\ now = 0
    /\ waitFor = 0
    /\ mainPc = "no_main"
    /\ built = <<>>

----------------------------------------------------------------------------
(* spinInternal *)

\* A loop that does not read the flag before a frame (the fault C7 excludes).
LoopGoesOnUnchecked == TRUE

\* while (!cancelled) / if (cancelled) break: whether the loop goes on to write a frame.
LoopGoesOn == ~cancelled

\* spinInternal ends by a thrown error or a rejected await: its promise is rejected.
LoopThrows(reason) ==
    /\ loopPc' = "threw"
    /\ internal' = PromiseReject(internal, reason)

\* A loop that shows the cursor itself when it leaves (the fault C16 excludes).
LoopIteratesShowsCursor(pending) ==
    IF LoopGoesOn
    THEN /\ loopPc' = "frame_write"
         /\ inflight' = pending \cup {Write(LoopTask, ALL_BRAILLE_FRAMES[frameIdx])}
         /\ UNCHANGED internal
    ELSE /\ loopPc' = "show_write"
         /\ inflight' = pending \cup {Write(LoopTask, ShowBytes)}
         /\ UNCHANGED internal

\* From the while test to the next await, with `pending` the other writes in flight:
\* the loop writes the frame at frameIdx, or leaves both loops and returns.
LoopIterates(pending) ==
    IF LoopGoesOn
    THEN /\ loopPc' = "frame_write"
         /\ inflight' = pending \cup {Write(LoopTask, ALL_BRAILLE_FRAMES[frameIdx])}
         /\ UNCHANGED internal
    ELSE /\ loopPc' = "returned"
         /\ inflight' = pending
         /\ internal' = PromiseResolve(internal, Undefined)

\* A for body without the throw: the loop goes on to the next frame, and from the
\* last frame to the while test and the first frame (the fault C17 describes, removed).
AfterSleepNextFrame ==
    /\ frameIdx' = (frameIdx + 1) % (BRAILLE_LAST - BRAILLE_FIRST + 1)
    /\ IF LoopGoesOn
       THEN /\ loopPc' = "frame_write"
            /\ inflight' = inflight \cup {Write(LoopTask, ALL_BRAILLE_FRAMES[frameIdx'])}
            /\ UNCHANGED internal
       ELSE /\ loopPc' = "returned"
            /\ inflight' = inflight
            /\ internal' = PromiseResolve(internal, Undefined)

\* What follows await sleep(ms) in the for body: throw new Error("test").
AfterSleep == LoopThrows(TestError) /\ UNCHANGED <<frameIdx, inflight>>

\* The hide-cursor write completes; the loop goes to its while test.
LoopHideWritten ==
    /\ loopPc = "hide_write"
    /\ \E w \in InFlightOf(LoopTask) :
          /\ sink' = Append(sink, w)
          /\ LoopIterates(inflight \ {w})
    /\ UNCHANGED <<cancelled, deferredVars, frameIdx, reacted, cancelVars, awaitVars, wake, extVars>>

\* The frame write completes; the loop starts sleep(ms).
LoopFrameWritten ==
    /\ loopPc = "frame_write"
    /\ \E w \in InFlightOf(LoopTask) :
          /\ sink' = Append(sink, w)
          /\ inflight' = inflight \ {w}
    /\ loopPc' = "sleep"
    /\ wake' = now + ms
    /\ UNCHANGED <<cancelled, deferredVars, frameIdx, internal, reacted, cancelVars,
                   awaitVars, extVars>>

\* The sink rejects the loop's write in flight (hide-cursor or frame): the await throws.
LoopWriteFails ==
    /\ loopPc \in {"hide_write", "frame_write"}
    /\ \E w \in InFlightOf(LoopTask) : inflight' = inflight \ {w}
    /\ LoopThrows(WriteError)
    /\ UNCHANGED <<cancelled, deferredVars, frameIdx, reacted, cancelVars, awaitVars, sink, wake, extVars>>

\* The timer of sleep(ms) fires.
LoopSleepDone ==
    /\ loopPc = "sleep"
    /\ AfterSleep
    /\ UNCHANGED <<cancelled, deferredVars, reacted, cancelVars, awaitVars, sink, wake, extVars>>

\* internalPromise.then(done.resolve, done.reject): a rejection handed to
\* done.reject (the routing C18 excludes).
InternalReactionRejects ==
    /\ Settled(internal)
    /\ ~reacted
    /\ reacted' = TRUE
    /\ IF internal.state = "fulfilled"
       THEN CallResolve(internal.value)
       ELSE CallReject(internal.value)
    /\ UNCHANGED <<cancelled, loopPc, frameIdx, internal, cancelVars, awaitVars, sinkVars,
                   wake, extVars>>

\* internalPromise.then(done.resolve, done.resolve): the handler of either outcome
\* is done.resolve, called with the value or the reason.
InternalReaction ==
    /\ Settled(internal)
    /\ ~reacted
    /\ reacted' = TRUE
    /\ CallResolve(internal.value)
    /\ UNCHANGED <<cancelled, loopPc, frameIdx, internal, cancelVars, awaitVars, sinkVars, wake, extVars>>

----------------------------------------------------------------------------
(* cancel *)

\* A cancel() that issues the cleanup write and leaves the flag (the fault C12 excludes).
CancelCallNoFlag(i) ==
    /\ cancelPc[i] = "idle"
    /\ \A k \in 1 .. (i - 1) : cancelPc[k] # "idle"
    /\ inflight' = inflight \cup {Write(CancelTask(i), CleanupBytes)}
    /\ cancelPc' = [cancelPc EXCEPT ![i] = "write"]
    /\ UNCHANGED <<cancelled, deferredVars, loopVars, cancelSaw, cancelRet, awaitVars, sink,
                   extVars>>

\* The controller calls cancel(): the flag is set and the cleanup write issued.
\* Calls are numbered in the order they are made.
CancelCall(i) ==
    /\ cancelPc[i] = "idle"
    /\ \A k \in 1 .. (i - 1) : cancelPc[k] # "idle"
    /\ cancelled' = TRUE
    /\ inflight' = inflight \cup {Write(CancelTask(i), CleanupBytes)}
    /\ cancelPc' = [cancelPc EXCEPT ![i] = "write"]
    /\ UNCHANGED <<deferredVars, loopVars, cancelSaw, cancelRet, awaitVars, sink, extVars>>

\* The cleanup write completes: done.resolve(), then await done.promise.
CancelWritten(i) ==
    /\ cancelPc[i] = "write"
    /\ \E w \in InFlightOf(CancelTask(i)) :
          /\ sink' = Append(sink, w)
          /\ inflight' = inflight \ {w}
    /\ CallResolve(Undefined)
    /\ cancelPc' = [cancelPc EXCEPT ![i] = "await_done"]
    /\ UNCHANGED <<cancelled, loopVars, cancelSaw, cancelRet, awaitVars, extVars>>

\* The sink rejects the cleanup write: the await throws, cancel()'s promise is rejected.
CancelWriteFails(i) ==
    /\ cancelPc[i] = "write"
    /\ \E w \in InFlightOf(CancelTask(i)) : inflight' = inflight \ {w}
    /\ cancelPc' = [cancelPc EXCEPT ![i] = "threw"]
    /\ cancelRet' = [cancelRet EXCEPT ![i] = PromiseReject(@, WriteError)]
    /\ UNCHANGED <<cancelled, deferredVars, loopVars, cancelSaw, awaitVars, sink, extVars>>

\* await done.promise resumes: cancel() returns, or throws the reason done was rejected with.
CancelResumes(i) ==
    /\ cancelPc[i] = "await_done"
    /\ Settled(done.promise)
    /\ cancelSaw' = [cancelSaw EXCEPT ![i] = done.promise]
    /\ IF done.promise.state = "fulfilled"
       THEN /\ cancelPc' = [cancelPc EXCEPT ![i] = "returned"]
            /\ cancelRet' = [cancelRet EXCEPT ![i] = PromiseResolve(@, Undefined)]
       ELSE /\ cancelPc' = [cancelPc EXCEPT ![i] = "threw"]
            /\ cancelRet' = [cancelRet EXCEPT ![i] = PromiseReject(@, done.promise.value)]
    /\ UNCHANGED <<cancelled, deferredVars, loopVars, awaitVars, sinkVars, extVars>>

----------------------------------------------------------------------------
(* The awaiters of the done promise spin() returned. *)

\* An awaiter starts await done; awaiters are numbered in the order they attach.
\* `late` records that done was settled already.
AwaitDone(j) ==
    /\ awaitPc[j] = "idle"
    /\ \A k \in 1 .. (j - 1) : awaitPc[k] # "idle"
    /\ awaitPc' = [awaitPc EXCEPT ![j] = "waiting"]
    /\ awaitSaw' = [awaitSaw EXCEPT ![j].late = Settled(done.promise)]
    /\ UNCHANGED <<cancelled, deferredVars, loopVars, cancelVars, sinkVars, extVars>>

\* The awaiter is resumed with the outcome of the settled promise.
AwaitResumes(j) ==
    /\ awaitPc[j] = "waiting"
    /\ Settled(done.promise)
    /\ awaitPc' = [awaitPc EXCEPT ![j] = "resumed"]
    /\ awaitSaw' = [awaitSaw EXCEPT ![j].outcome = done.promise]
    /\ UNCHANGED <<cancelled, deferredVars, loopVars, cancelVars, sinkVars, extVars>>

Next ==
    \/ LoopHideWritten
    \/ LoopFrameWritten
    \/ LoopWriteFails
    \/ LoopSleepDone
    \/ InternalReaction
    \/ \E i \in 1 .. MaxCancels : CancelCall(i)
    \/ \E i \in 1 .. MaxCancels : CancelWritten(i)
    \/ \E i \in 1 .. MaxCancels : CancelWriteFails(i)
    \/ \E i \in 1 .. MaxCancels : CancelResumes(i)
    \/ \E j \in 1 .. MaxAwaiters : AwaitDone(j)
    \/ \E j \in 1 .. MaxAwaiters : AwaitResumes(j)

Spec == Init /\ [][Next]_vars

----------------------------------------------------------------------------
(* main: the program.  It writes "Working... ", and in its try block sets  *)
(* the terminal raw, calls spin(500), waits for a key, calls cancel() once *)
(* without awaiting it, and awaits done; its finally block issues a        *)
(* show-cursor write without awaiting it.  cancel() call 1 is main's.      *)

\* main has been called: its first write is in flight, spin() not yet called.
InitMain ==
    /\ cancelled = FALSE
    /\ done = NewDeferred
    /\ calls = <<>>
    /\ loopPc = "not_started"
    /\ frameIdx = 0
    /\ internal = PendingPromise
    /\ reacted = FALSE
    /\ cancelPc = [i \in 1 .. MaxCancels |-> "idle"]
    /\ cancelSaw = [i \in 1 .. MaxCancels |-> PendingPromise]
    /\ cancelRet = [i \in 1 .. MaxCancels |-> PendingPromise]
    /\ awaitPc = [j \in 1 .. MaxAwaiters |-> "idle"]
    /\ awaitSaw = [j \in 1 .. MaxAwaiters |-> [late |-> FALSE, outcome |-> PendingPromise]]
    /\ inflight = {Write(MainTask, WorkingBytes)}
    /\ sink = <<>>
    /\ ms = DefaultMs
    /\ wake = 0
    /\ now = 0
    /\ waitFor = 0
    /\ mainPc = "working_write"
    /\ built = <<>>

\* main has left its try block and its finally block has run, or it failed before the try.
MainEnded == mainPc \in {"finished", "failed"}

\* finally: Deno.stderr.write(ANSI_CURSOR_SHOW), not awaited; `pending` are the
\* other writes in flight.
MainFinally(pending) == inflight' = pending \cup {Write(MainTask, ShowBytes)}

\* The sink rejects the first write: main fails before its try block.
MainWorkingFails ==
    /\ mainPc = "working_write"
    /\ \E w \in InFlightOf(MainTask) : inflight' = inflight \ {w}
    /\ mainPc' = "failed"
    /\ UNCHANGED <<cancelled, deferredVars, loopVars, cancelVars, awaitVars, sink, timeVars,
                   built>>

\* The first write completes and main enters the try block.  Deno.stdin.setRaw(true)
\* throws (stdin is no terminal) and the finally block runs; or main calls spin(),
\* which starts spinInternal up to its hide-cursor write, and then waitForKeypress().
MainWorkingWritten ==
    /\ mainPc = "working_write"
    /\ \E w \in InFlightOf(MainTask), rawOk \in BOOLEAN :
          /\ sink' = Append(sink, w)
          /\ IF rawOk
             THEN /\ loopPc' = "hide_write"
                  /\ inflight' = (inflight \ {w}) \cup {Write(LoopTask, HideBytes)}
                  /\ mainPc' = "keypress"
             ELSE /\ MainFinally(inflight \ {w})
                  /\ mainPc' = "failed"
                  /\ UNCHANGED loopPc
    /\ UNCHANGED <<cancelled, deferredVars, frameIdx, internal, reacted, wake, cancelVars,
                   awaitVars, timeVars, built>>

\* A misplaced show-cursor write: on the normal path only, not in a finally block
\* (the fault C14 excludes).
MainKeypressFailsNoFinally ==
    /\ mainPc = "keypress"
    /\ mainPc' = "failed"
    /\ UNCHANGED <<cancelled, deferredVars, loopVars, cancelVars, awaitVars, sinkVars,
                   timeVars, built>>

\* waitForKeypress() rejects (setRaw or the read of stdin failed): the finally block runs.
MainKeypressFails ==
    /\ mainPc = "keypress"
    /\ MainFinally(inflight)
    /\ mainPc' = "failed"
    /\ UNCHANGED <<cancelled, deferredVars, loopVars, cancelVars, awaitVars, sink, timeVars,
                   built>>

\* waitForKeypress() returns: main calls cancel(), which sets the flag and issues the
\* cleanup write, and goes on at once to await done.
MainKeypress ==
    /\ mainPc = "keypress"
    /\ cancelPc[1] = "idle"
    /\ cancelled' = TRUE
    /\ inflight' = inflight \cup {Write(CancelTask(1), CleanupBytes)}
    /\ cancelPc' = [cancelPc EXCEPT ![1] = "write"]
    /\ mainPc' = "await_done"
    /\ UNCHANGED <<deferredVars, loopVars, cancelSaw, cancelRet, awaitVars, sink, timeVars,
                   built>>

\* await done resumes: the finally block runs; main prints "Done!" and returns, or
\* fails with the reason done was rejected with.
MainDoneResumes ==
    /\ mainPc = "await_done"
    /\ Settled(done.promise)
    /\ MainFinally(inflight)
    /\ mainPc' = IF done.promise.state = "fulfilled" THEN "finished" ELSE "failed"
    /\ UNCHANGED <<cancelled, deferredVars, loopVars, cancelVars, awaitVars, sink, timeVars,
                   built>>

\* The show-cursor write of the finally block completes; nothing awaits it.
MainShowWritten ==
    /\ MainEnded
    /\ \E w \in InFlightOf(MainTask) :
          /\ sink' = Append(sink, w)
          /\ inflight' = inflight \ {w}
    /\ UNCHANGED <<cancelled, deferredVars, loopVars, cancelVars, awaitVars, extVars>>

\* The sink rejects the show-cursor write of the finally block; nothing handles it.
MainShowFails ==
    /\ MainEnded
    /\ \E w \in InFlightOf(MainTask) : inflight' = inflight \ {w}
    /\ UNCHANGED <<cancelled, deferredVars, loopVars, cancelVars, awaitVars, sink, extVars>>

NextMain ==
    \/ MainWorkingFails
    \/ MainWorkingWritten
    \/ MainKeypressFails
    \/ MainKeypress
    \/ MainDoneResumes
    \/ MainShowWritten
    \/ MainShowFails
    \/ LoopHideWritten
    \/ LoopFrameWritten
    \/ LoopWriteFails
    \/ LoopSleepDone
    \/ InternalReaction
    \/ CancelWritten(1)
    \/ CancelWriteFails(1)
    \/ CancelResumes(1)

SpecMain == InitMain /\ [][NextMain]_vars

----------------------------------------------------------------------------
(* The spinner with a sink that accepts every write, under the scheduling  *)
(* of the event loop: a write in flight completes, a timer fires, and a    *)
(* continuation or reaction that is ready runs.  The controller is under   *)
(* no obligation: it may call cancel() and await done, or never do so.     *)

NextLive ==
    \/ LoopHideWritten
    \/ LoopFrameWritten
    \/ LoopSleepDone
    \/ InternalReaction
    \/ \E i \in 1 .. MaxCancels : CancelCall(i)
    \/ \E i \in 1 .. MaxCancels : CancelWritten(i)
    \/ \E i \in 1 .. MaxCancels : CancelResumes(i)
    \/ \E j \in 1 .. MaxAwaiters : AwaitDone(j)
    \/ \E j \in 1 .. MaxAwaiters : AwaitResumes(j)

Fairness ==
    /\ WF_vars(LoopHideWritten)
    /\ WF_vars(LoopFrameWritten)
    /\ WF_vars(LoopSleepDone)
    /\ WF_vars(InternalReaction)
    /\ \A i \in 1 .. MaxCancels : WF_vars(CancelWritten(i)) /\ WF_vars(CancelResumes(i))
    /\ \A j \in 1 .. MaxAwaiters : WF_vars(AwaitResumes(j))

SpecLive == Init /\ [][NextLive]_vars /\ Fairness

----------------------------------------------------------------------------
(* The spinner in time.  spin(ms) is called at time 0 with ms one of       *)
(* Intervals; the controller waits waitFor time units and calls cancel()   *)
(* once.  The sink accepts every write, and a write, a reaction and a      *)
(* continuation take no time: time advances only when none is pending, and *)
(* not past a timer that is due.                                           *)

Intervals == {5, 10}

InitTimed ==
    /\ cancelled = FALSE
    /\ done = NewDeferred
    /\ calls = <<>>
    /\ loopPc = "hide_write"
    /\ frameIdx = 0
    /\ internal = PendingPromise
    /\ reacted = FALSE
    /\ cancelPc = [i \in 1 .. MaxCancels |-> "idle"]
    /\ cancelSaw = [i \in 1 .. MaxCancels |-> PendingPromise]
    /\ cancelRet = [i \in 1 .. MaxCancels |-> PendingPromise]
    /\ awaitPc = [j \in 1 .. MaxAwaiters |-> "idle"]
    /\ awaitSaw = [j \in 1 .. MaxAwaiters |-> [late |-> FALSE, outcome |-> PendingPromise]]
    /\ inflight = {Write(LoopTask, HideBytes)}
    /\ sink = <<>>
    /\ ms \in Intervals
    /\ wake = 0
    /\ now = 0
    /\ waitFor \in 0 .. MaxWait
    /\ mainPc = "no_main"
    /\ built = <<>>

\* setTimeout(resolve, ms): the timer of the loop's sleep is due.
TimerDue == loopPc = "sleep" /\ now >= wake

\* The controller's wait is over and it has not called cancel() yet.
CancelDue == cancelPc[1] = "idle" /\ now >= waitFor

\* Something runs without time passing: a write in flight, the reaction of
\* internalPromise, the continuation of cancel().
Busy ==
    \/ inflight # {}
    \/ Settled(internal) /\ ~reacted
    \/ cancelPc[1] = "await_done"

Tick ==
    /\ ~Busy /\ ~TimerDue /\ ~CancelDue
    /\ loopPc = "sleep" \/ cancelPc[1] = "idle"
    /\ now' = now + 1
    /\ UNCHANGED <<cancelled, deferredVars, loopVars, cancelVars, awaitVars, sinkVars, ms,
                   waitFor, mainPc, built>>

TimedSleepDone == TimerDue /\ LoopSleepDone

TimedCancel == CancelDue /\ CancelCall(1)

NextTimed ==
    \/ Tick
    \/ TimedSleepDone
    \/ TimedCancel
    \/ LoopHideWritten
    \/ LoopFrameWritten
    \/ InternalReaction
    \/ CancelWritten(1)
    \/ CancelResumes(1)

SpecTimed == InitTimed /\ [][NextTimed]_vars

----------------------------------------------------------------------------
(* The module's start: ALL_BRAILLE_CHARS.map(encode) builds the frames     *)
(* array, one element per character, in index order.  No spinner runs.     *)

InitFrames ==
    /\ cancelled = FALSE
    /\ done = NewDeferred
    /\ calls = <<>>
    /\ loopPc = "not_started"
    /\ frameIdx = 0
    /\ internal = PendingPromise
    /\ reacted = FALSE
    /\ cancelPc = [i \in 1 .. MaxCancels |-> "idle"]
    /\ cancelSaw = [i \in 1 .. MaxCancels |-> PendingPromise]
    /\ cancelRet = [i \in 1 .. MaxCancels |-> PendingPromise]
    /\ awaitPc = [j \in 1 .. MaxAwaiters |-> "idle"]
    /\ awaitSaw = [j \in 1 .. MaxAwaiters |-> [late |-> FALSE, outcome |-> PendingPromise]]
    /\ inflight = {}
    /\ sink = <<>>
    /\ ms = DefaultMs
    /\ wake = 0
    /\ now = 0
    /\ waitFor = 0
    /\ mainPc = "no_main"
    /\ built = <<>>

\* The array is complete: map has called encode on every character.
FramesBuilt == Len(built) = Cardinality(DOMAIN ALL_BRAILLE_CHARS)

\* map calls encode on the next character and stores the frame; built[k] is the
\* frame of index k - 1.
BuildFrame ==
    /\ ~FramesBuilt
    /\ built' = Append(built, encode(ALL_BRAILLE_CHARS[Len(built)]))
    /\ UNCHANGED <<cancelled, deferredVars, loopVars, cancelVars, awaitVars, sinkVars,
                   timeVars, mainPc>>

NextFrames == BuildFrame

SpecFrames == InitFrames /\ [][NextFrames]_vars

----------------------------------------------------------------------------
(* A Deferred taken alone: any sequence of at most MaxCalls calls of its   *)
(* resolve and reject, with any arguments.  No spinner runs.               *)

InitDeferred ==
    /\ cancelled = FALSE
    /\ done = NewDeferred
    /\ calls = <<>>
    /\ loopPc = "not_started"
    /\ frameIdx = 0
    /\ internal = PendingPromise
    /\ reacted = FALSE
    /\ cancelPc = [i \in 1 .. MaxCancels |-> "idle"]
    /\ cancelSaw = [i \in 1 .. MaxCancels |-> PendingPromise]
    /\ cancelRet = [i \in 1 .. MaxCancels |-> PendingPromise]
    /\ awaitPc = [j \in 1 .. MaxAwaiters |-> "idle"]
    /\ awaitSaw = [j \in 1 .. MaxAwaiters |-> [late |-> FALSE, outcome |-> PendingPromise]]
    /\ inflight = {}
    /\ sink = <<>>
    /\ ms = DefaultMs
    /\ wake = 0
    /\ now = 0
    /\ waitFor = 0
    /\ mainPc = "no_main"
    /\ built = <<>>

DeferredResolveCalled ==
    /\ Len(calls) < MaxCalls
    /\ \E v \in Values : CallResolve(v)
    /\ UNCHANGED <<cancelled, loopVars, cancelVars, awaitVars, sinkVars, extVars>>

DeferredRejectCalled ==
    /\ Len(calls) < MaxCalls
    /\ \E r \in Values : CallReject(r)
    /\ UNCHANGED <<cancelled, loopVars, cancelVars, awaitVars, sinkVars, extVars>>

NextDeferred ==
    \/ DeferredResolveCalled
    \/ DeferredRejectCalled

SpecDeferred == InitDeferred /\ [][NextDeferred]_vars

----------------------------------------------------------------------------
(* What the sink holds. *)

IsHide(w) == w.by = LoopTask /\ w.bytes = HideBytes
IsFrame(w) == w.by = LoopTask /\ w.bytes # HideBytes
IsCleanup(w) == w.by[1] = "cancel" /\ w.bytes = CleanupBytes

HideWritten == \E p \in DOMAIN sink : IsHide(sink[p])
CleanupWritten == \E p \in DOMAIN sink : IsCleanup(sink[p])
FramesWritten == {p \in DOMAIN sink : IsFrame(sink[p])}

\* The loop ended because a write of its own was rejected by the sink.
LoopWriteFailed == internal.state = "rejected" /\ internal.value = WriteError
\* The loop ended by the throw after its sleep.
LoopThrewTest == internal.state = "rejected" /\ internal.value = TestError

\* cancel() call i ended because the sink rejected its cleanup write.
CleanupRejected(i) ==
    cancelPc[i] = "threw" /\ ~Settled(cancelSaw[i]) /\ cancelRet[i].value = WriteError

----------------------------------------------------------------------------
(* The claims. *)

\* C1: when the loop has failed before any cancel() call and its outcome has been
\* handed on, the done promise is rejected with the cause of that failure (it is
\* not fulfilled).
C1_LoopFailureRejectsDone ==
    (loopPc = "threw" /\ ~cancelled /\ reacted)
        => (done.promise.state = "rejected" /\ done.promise.value = internal.value)

\* C2: once a first cancel() call has returned, a further cancel() call emits no
\* cleanup sequence: no step taken after the first call returned issues a cleanup
\* write.
C2_SecondCancelEmitsNoCleanup ==
    [][cancelPc[1] = "returned" => \A w \in inflight' \ inflight : ~IsCleanup(w)]_vars

\* C3: done is never fulfilled while the hide-cursor sequence has been written and
\* no cleanup write of cancel() has completed.
C3_DoneFulfilledOnlyAfterCleanup ==
    ~(done.promise.state = "fulfilled" /\ HideWritten /\ ~CleanupWritten)

\* C4: as long as cancel() has not been called and the sink rejects no write of the
\* loop, the loop has not stopped: it is writing a frame or waiting out an interval.
C4_LoopNeverStopsOnItsOwn ==
    (~cancelled /\ ~LoopWriteFailed) => loopPc \in {"hide_write", "frame_write", "sleep"}

\* C5: the first attempt to settle done decides its outcome, the outcome of a settled
\* done never changes, and every awaiter that has been resumed (the await of a
\* cancel() call, an awaiter attached before or after settlement) was resumed with
\* the outcome done has.
C5_OneOutcomeForAll ==
    /\ [][Settled(done.promise) => done.promise' = done.promise]_vars
    /\ [](calls # <<>> => /\ done.promise.state = "fulfilled"
                          /\ done.promise.value = calls[1].arg)
    /\ [](\A j \in 1 .. MaxAwaiters :
            awaitPc[j] = "resumed" => awaitSaw[j].outcome = done.promise)
    /\ [](\A i \in 1 .. MaxCancels :
            cancelPc[i] = "returned" => cancelSaw[i] = done.promise)

\* C5's case: the loop failed and cancel() ran, both called done.resolve, and an
\* awaiter attached before settlement, one attached after it and the await of
\* cancel() have all been resumed.
C5_Witness ==
    /\ internal.state = "rejected" /\ reacted
    /\ cancelPc[1] = "returned"
    /\ Len(calls) >= 2
    /\ awaitPc[1] = "resumed" /\ ~awaitSaw[1].late
    /\ awaitPc[2] = "resumed" /\ awaitSaw[2].late

\* C6: for a Deferred after any calls of resolve and reject: isResolved and
\* isRejected are not both true, isResolved holds exactly when the promise is
\* fulfilled, isRejected exactly when it is rejected, isDone exactly when it is
\* settled, and the first call alone decides the state.
C6_FlagsReflectPromise ==
    /\ ~(done.isResolved /\ done.isRejected)
    /\ done.isResolved <=> done.promise.state = "fulfilled"
    /\ done.isRejected <=> done.promise.state = "rejected"
    /\ isDone(done) <=> Settled(done.promise)
    /\ calls # <<>> =>
          /\ done.promise.value = calls[1].arg
          /\ done.promise.state = (IF calls[1].op = "resolve" THEN "fulfilled" ELSE "rejected")

\* C7: a step that issues a frame write starts in a state where cancelled is
\* false: once the flag is set no frame write begins, and the frames the sink
\* holds or is being sent do not grow in number.
C7_NoFrameWriteBeginsOnceCancelled ==
    [][cancelled =>
          /\ \A w \in inflight' \ inflight : ~IsFrame(w)
          /\ Cardinality(FramesWritten') + Cardinality({w \in inflight' : IsFrame(w)})
                <= Cardinality(FramesWritten) + Cardinality({w \in inflight : IsFrame(w)})]_vars

\* C7's case: cancel() was called while the hide-cursor write was in flight, the
\* loop came to its check and left without writing a frame.
C7_Witness ==
    /\ cancelled
    /\ loopPc = "returned"
    /\ HideWritten
    /\ FramesWritten = {}

\* C8: after a cancel() call that returned, nothing but cleanup sequences follows
\* its cleanup sequence on the sink: no frame and no hide-cursor sequence.
C8_CleanupIsLast ==
    \A p, q \in DOMAIN sink :
        (p < q /\ IsCleanup(sink[p]) /\ cancelPc[sink[p].by[2]] = "returned")
            => IsCleanup(sink[q])

\* C9: at no time are two writes to the sink in flight.
C9_WritesSerialized == Cardinality(inflight) <= 1

\* C10: when the sink has rejected the cleanup write of a cancel() call, done is
\* rejected with that cause.
C10_CleanupFailureRejectsDone ==
    \A i \in 1 .. MaxCancels :
        CleanupRejected(i)
            => (done.promise.state = "rejected" /\ done.promise.value = WriteError)

\* No frame write has been issued that is still in flight or reached the sink.
NoFrameYet == FramesWritten = {} /\ \A w \in inflight : ~IsFrame(w)

\* The writes in flight and on the sink.
WritesAbout == inflight \cup {sink[p] : p \in DOMAIN sink}

\* C11: a cancel() call made before any frame write is safe: no frame write begins
\* afterwards; and when such a call has returned, its cleanup sequence is on the
\* sink and done is fulfilled, with the value of a success unless the sink rejected
\* the hide-cursor write.
C11_PrematureCancelIsSafe ==
    /\ [][(cancelled /\ NoFrameYet) => NoFrameYet']_vars
    /\ [](\A i \in 1 .. MaxCancels :
            (cancelPc[i] = "returned" /\ NoFrameYet) =>
                /\ \E p \in DOMAIN sink : sink[p] = Write(CancelTask(i), CleanupBytes)
                /\ done.promise.state = "fulfilled"
                /\ ~LoopWriteFailed => done.promise.value = Undefined)

\* C11's case: cancel() was called while the hide-cursor write was in flight; the
\* loop has returned without a frame, cancel() has returned, done is fulfilled.
C11_Witness ==
    /\ cancelPc[1] = "returned"
    /\ loopPc = "returned"
    /\ NoFrameYet
    /\ HideWritten /\ CleanupWritten
    /\ done.promise = [state |-> "fulfilled", value |-> Undefined]

\* C12: the cancelled flag never goes back to false, only a step that is a call of
\* cancel() changes it, and a cleanup write is never issued with the flag unset.
C12_FlagSetOnceByCancel ==
    /\ [][cancelled => cancelled']_vars
    /\ [][cancelled' # cancelled =>
            \E i \in 1 .. MaxCancels : cancelPc[i] = "idle" /\ cancelPc'[i] = "write"]_vars
    /\ []((\E w \in WritesAbout : IsCleanup(w)) => cancelled)

\* C12's case: cancel() has set the flag and issued its cleanup write while the
\* loop, which only reads the flag, is still at a frame write.
C12_Witness ==
    /\ cancelled
    /\ loopPc = "frame_write"
    /\ \E w \in inflight : IsCleanup(w)

C18_DoneNeverRejected ==
    /\ done.promise.state \in {"pending", "fulfilled"}
    /\ ~done.isRejected
    /\ \A k \in DOMAIN calls : calls[k].op = "resolve"

\* C18's case: the loop has thrown, and its error was handed to done.resolve: done
\* is fulfilled with the error as its value.
C18_Witness ==
    /\ loopPc = "threw"
    /\ reacted
    /\ done.promise = [state |-> "fulfilled", value |-> TestError]
    /\ done.isResolved

\* No cancel() call is waiting on its cleanup write or on done, done is settled,
\* and no awaiter of done is waiting.
NothingBlocked ==
    /\ \A i \in 1 .. MaxCancels : cancelPc[i] \in {"idle", "returned"}
    /\ Settled(done.promise)
    /\ \A j \in 1 .. MaxAwaiters : awaitPc[j] # "waiting"

\* C19: with a sink that accepts every write and timers that fire, every cancel()
\* call that was made returns, done is settled, and every awaiter of done is
\* resumed: whatever the interleaving, the program keeps coming back to a state
\* in which no cancel() call and no awaiter is blocked and done is settled.
C19_CancelAndDoneTerminate == []<>NothingBlocked

\* C19's case: two cancel() calls made while the loop was running have both
\* returned, and an awaiter of done has been resumed.
C19_Witness ==
    /\ \A i \in 1 .. MaxCancels : cancelPc[i] = "returned"
    /\ loopPc \in {"returned", "threw"}
    /\ awaitPc[1] = "resumed" /\ ~awaitSaw[1].late

\* Whether the byte sequence holds the show-cursor control sequence.
HasShow(bytes) ==
    \E k \in 1 .. Len(bytes) :
        /\ k + Len(ShowBytes) - 1 <= Len(bytes)
        /\ SubSeq(bytes, k, k + Len(ShowBytes) - 1) = ShowBytes

\* The step is one in which main leaves its try block: from an await inside it, or
\* from the first write by setRaw throwing as the block is entered.
MainLeavesTry ==
    /\ ~MainEnded
    /\ MainEnded'
    /\ mainPc = "working_write" => sink' # sink

\* C14: every step in which main leaves its try block, normally or by a failure,
\* issues the show-cursor write of the finally block; the hide-cursor write is
\* issued inside the try block only, so never after that show-cursor write.
C14_MainAlwaysShowsCursor ==
    /\ [][MainLeavesTry => Write(MainTask, ShowBytes) \in (inflight' \ inflight)]_vars
    /\ [][MainEnded => \A w \in inflight' \ inflight : ~IsHide(w)]_vars

\* C14's case: spin() has hidden the cursor, waitForKeypress() failed, and the
\* finally block has issued the show-cursor write; cancel() was never called.
C14_Witness ==
    /\ mainPc = "failed"
    /\ HideWritten
    /\ cancelPc[1] = "idle"
    /\ Write(MainTask, ShowBytes) \in inflight

\* C16: the hide-cursor sequence is written at most once, it is on the sink before
\* any frame write is issued, and no write of the loop holds show-cursor: the
\* writes that hold it are those of cancel() and of main's finally block.
C16_HideOnceAndLoopNeverShows ==
    /\ Cardinality({p \in DOMAIN sink : IsHide(sink[p])})
          + Cardinality({w \in inflight : IsHide(w)}) <= 1
    /\ (\E w \in WritesAbout : IsFrame(w)) => HideWritten
    /\ \A w \in WritesAbout : HasShow(w.bytes) => w.by \in {CancelTask(1), MainTask}
    /\ \A w \in WritesAbout : w.by = LoopTask => ~HasShow(w.bytes)

\* C16's case: the loop has written hide-cursor and a frame and has ended, and the
\* sink holds show-cursor from cancel() and from main's finally block.
C16_Witness ==
    /\ loopPc \in {"returned", "threw"}
    /\ HideWritten
    /\ FramesWritten # {}
    /\ CleanupWritten
    /\ \E p \in DOMAIN sink : sink[p] = Write(MainTask, ShowBytes)

\* The byte sequences the sink received, in order.
SinkBytes == [p \in DOMAIN sink |-> sink[p].bytes]

\* C13: with an interval of 10 and cancel() called after 25 time units, when
\* cancel() has returned and the loop has ended the sink has received hide-cursor,
\* the first three frames and the cleanup sequence, in that order, and done is
\* fulfilled with the value of a success.
C13_EndToEnd ==
    (/\ ms = 10
     /\ waitFor = 25
     /\ cancelPc[1] = "returned"
     /\ loopPc \in {"returned", "threw"}
     /\ inflight = {})
        => /\ SinkBytes = <<HideBytes, ALL_BRAILLE_FRAMES[0], ALL_BRAILLE_FRAMES[1],
                            ALL_BRAILLE_FRAMES[2], CleanupBytes>>
           /\ done.promise = [state |-> "fulfilled", value |-> Undefined]

RECURSIVE Utf8Decode(_)
\* The code points a UTF-8 byte sequence encodes (sequences of one to three bytes).
Utf8Decode(bytes) ==
    IF bytes = <<>> THEN <<>>
    ELSE IF bytes[1] < 128
         THEN <<bytes[1]>> \o Utf8Decode(Tail(bytes))
    ELSE IF bytes[1] < 224
         THEN <<(bytes[1] - 192) * 64 + (bytes[2] - 128)>>
                  \o Utf8Decode(SubSeq(bytes, 3, Len(bytes)))
    ELSE <<(bytes[1] - 224) * 4096 + (bytes[2] - 128) * 64 + (bytes[3] - 128)>>
             \o Utf8Decode(SubSeq(bytes, 4, Len(bytes)))

\* C15: the frames array has 256 frames when built; the frame of index i is the
\* encoding of ESC [ 1 D followed by the one code point U+2800 + i; a frame once
\* built is never changed; and the array the loop reads is the array built.
C15_FramesAreCursorLeftThenGlyph ==
    /\ [](Len(built) <= 256)
    /\ [](FramesBuilt => Len(built) = 256)
    /\ [](\A k \in 1 .. Len(built) :
            Utf8Decode(built[k]) = <<27, 91, 49, 68, 10240 + (k - 1)>>)
    /\ [](FramesBuilt =>
            /\ DOMAIN ALL_BRAILLE_FRAMES = 0 .. 255
            /\ \A i \in 0 .. 255 : ALL_BRAILLE_FRAMES[i] = built[i + 1])
    /\ [][\A k \in 1 .. Len(built) : built'[k] = built[k]]_vars

\* C15's case: all frames are built, the last being that of U+28FF.
C15_Witness ==
    /\ FramesBuilt
    /\ Len(built) = 256
    /\ Utf8Decode(built[256]) = <<27, 91, 49, 68, 10495>>
    /\ built[1] = <<27, 91, 49, 68, 226, 160, 128>>

====
